---- MODULE Spec2Model ----
(***************************************************************************)
(* Intermittent Bleed Pneumatic Controller Simulator.                      *)
(*                                                                         *)
(* simulate_emissions_optimized (PC_Emissions_Sim.py) and the Monte Carlo  *)
(* loop that drives it (pneumatics.py).  Real numbers are exact rationals  *)
(* <<n, d>> in lowest terms with d > 0; every random draw of the program   *)
(* is a nondeterministic choice.                                           *)
(***************************************************************************)
EXTENDS Integers, Sequences, FiniteSets, TLC

VARIABLES app, ui, run, sim, twin

vars == <<app, ui, run, sim, twin>>

(***************************************************************************)
(* Bounds of the model.                                                    *)
(***************************************************************************)
MaxPC == 2
MaxT == 2
MaxTrials == 1

(***************************************************************************)
(* Exact rational arithmetic.                                              *)
(***************************************************************************)
Abs(x) == IF x < 0 THEN -x ELSE x

Min(x, y) == IF x < y THEN x ELSE y

RECURSIVE GCD(_, _)
GCD(x, y) == IF y = 0 THEN x ELSE GCD(y, x % y)

Rat(n, d) ==
    LET s == IF d < 0 THEN -1 ELSE 1
        g == GCD(Abs(n), Abs(d))
    IN  <<(s * n) \div g, (s * d) \div g>>

Whole(n) == <<n, 1>>

Zero == Whole(0)

One == Whole(1)

RAdd(x, y) == Rat(x[1] * y[2] + y[1] * x[2], x[2] * y[2])

RSub(x, y) == Rat(x[1] * y[2] - y[1] * x[2], x[2] * y[2])

RMul(x, y) == Rat(x[1] * y[1], x[2] * y[2])

RDiv(x, y) == Rat(x[1] * y[2], x[2] * y[1])

RLt(x, y) ==
    LET g == GCD(x[2], y[2])
    IN  x[1] * (y[2] \div g) < y[1] * (x[2] \div g)

RLe(x, y) == x = y \/ RLt(x, y)

RMax(x, y) == IF RLt(x, y) THEN y ELSE x

RMin(x, y) == IF RLt(y, x) THEN y ELSE x

(***************************************************************************)
(* Array helpers (numpy).                                                  *)
(***************************************************************************)
Range(s) == {s[i] : i \in 1..Len(s)}

RECURSIVE np_sum(_)
np_sum(a) == IF Len(a) = 0 THEN 0 ELSE a[1] + np_sum(Tail(a))

RECURSIVE RSum(_)
RSum(a) == IF Len(a) = 0 THEN Zero ELSE RAdd(a[1], RSum(Tail(a)))

np_mean(a) == Rat(np_sum(a), Len(a))

RMean(a) == RDiv(RSum(a), Whole(Len(a)))

np_cumsum(a) == [k \in 1..Len(a) |-> np_sum(SubSeq(a, 1, k))]

np_zeros(n) == [i \in 1..n |-> 0]

np_clip_swapped(x, lo, hi) == RMin(RMax(x, hi), lo)

np_clip(x, lo, hi) == RMin(RMax(x, lo), hi)

(***************************************************************************)
(* Errors.  Python raises an exception object; the simulator's own checks  *)
(* and numpy's all raise ValueError, told apart by their message.          *)
(***************************************************************************)
NoError == [exc |-> "", msg |-> ""]

ValueError(m) == [exc |-> "ValueError", msg |-> m]

InvalidS0 == ValueError("Invalid S0")

InvalidDTF == ValueError("Invalid DTF")

EmptyPool == ValueError("'a' cannot be empty unless no samples are taken")

NegativeProbabilities == ValueError("probabilities are not non-negative")

ProbabilitiesSum == ValueError("probabilities do not sum to 1")

Ok(v) == [ok |-> TRUE, val |-> v, err |-> NoError]

Fail(e) == [ok |-> FALSE, val |-> <<>>, err |-> e]

(***************************************************************************)
(* np.random.choice(a, size=size): one value of a per unit, drawn with     *)
(* replacement; raises on an empty a when samples are asked for.           *)
(***************************************************************************)
np_random_choice_lenient(a, size) ==
    IF Len(a) = 0
    THEN {Ok(np_zeros(size))}
    ELSE {Ok(v) : v \in [1..size -> Range(a)]}

np_random_choice(a, size) ==
    IF Len(a) = 0 /\ size > 0
    THEN {Fail(EmptyPool)}
    ELSE {Ok(v) : v \in [1..size -> Range(a)]}

(***************************************************************************)
(* np.random.choice([0, 1], size=size, p=[S0, S1]): a weighted draw per    *)
(* unit; a state of weight zero is never drawn.                            *)
(***************************************************************************)
np_random_choice_p(size, S0, S1) ==
    IF RLt(S0, Zero) \/ RLt(S1, Zero)
    THEN {Fail(NegativeProbabilities)}
    ELSE IF RAdd(S0, S1) # One
    THEN {Fail(ProbabilitiesSum)}
    ELSE {Ok(v) : v \in [1..size -> {s \in {0, 1} :
                            RLt(Zero, IF s = 0 THEN S0 ELSE S1)}]}

(***************************************************************************)
(* np.random.rand(size): one uniform draw in [0, 1) per unit.              *)
(***************************************************************************)
RandVals == {Zero, Rat(1, 2)}

np_random_rand(size) == [1..size -> RandVals]

(***************************************************************************)
(* Elementwise numpy operations used by the loop body.                     *)
(***************************************************************************)
np_full(n, v) == [i \in 1..n |-> v]

np_where(c, x, y) == [i \in DOMAIN c |-> IF c[i] THEN x[i] ELSE y[i]]

MaxOf(x) == CHOOSE m \in Range(x) : \A v \in Range(x) : v <= m

np_bincount_nominlength(x, minlength) ==
    [k \in 1..(MaxOf(x) + 1) |-> Cardinality({i \in DOMAIN x : x[i] = k - 1})]

np_bincount(x, minlength) ==
    LET n == IF MaxOf(x) + 1 < minlength THEN minlength ELSE MaxOf(x) + 1
    IN  [k \in 1..n |-> Cardinality({i \in DOMAIN x : x[i] = k - 1})]

\* state_counts = np.bincount(states, minlength=2) / PC_count
state_counts_of(states, PC_count) ==
    LET c == np_bincount(states, 2)
    IN  [k \in DOMAIN c |-> Rat(c[k], PC_count)]

\* row[:] = v, a value of length 1 being broadcast over the row
Broadcast(v, width) == IF Len(v) = 1 THEN np_full(width, v[1]) ELSE v

emissions_swapped(states, prop_sample, malf_sample) ==
    np_where([i \in DOMAIN states |-> states[i] = 0], malf_sample, prop_sample)

\* emissions = np.where(states == 0, prop_sample, malf_sample)
emissions_of(states, prop_sample, malf_sample) ==
    np_where([i \in DOMAIN states |-> states[i] = 0], prop_sample, malf_sample)

next_states_inclusive(states, rand_vals, p, r) ==
    LET n == Len(states)
    IN  np_where([i \in 1..n |-> states[i] = 0 /\ RLe(rand_vals[i], p)],
                 np_full(n, 1),
                 np_where([i \in 1..n |-> states[i] = 1 /\ RLe(rand_vals[i], r)],
                          np_full(n, 0), states))

next_states_in_place(states, rand_vals, p, r) ==
    LET n == Len(states)
        failed == np_where([i \in 1..n |-> states[i] = 0 /\ RLt(rand_vals[i], p)],
                           np_full(n, 1), states)
    IN  np_where([i \in 1..n |-> failed[i] = 1 /\ RLt(rand_vals[i], r)],
                 np_full(n, 0), failed)

\* next_states = np.where((states == 0) & (rand_vals < p), 1,
\*                  np.where((states == 1) & (rand_vals < r), 0, states))
next_states_of(states, rand_vals, p, r) ==
    LET n == Len(states)
    IN  np_where([i \in 1..n |-> states[i] = 0 /\ RLt(rand_vals[i], p)],
                 np_full(n, 1),
                 np_where([i \in 1..n |-> states[i] = 1 /\ RLt(rand_vals[i], r)],
                          np_full(n, 0), states))

(***************************************************************************)
(* One invocation of simulate_emissions_optimized: its arguments, its      *)
(* locals, what it raised and what it returned.                            *)
(***************************************************************************)
NoArgs ==
    [PC_count |-> 0, DTF |-> 0, S0 |-> Zero, timesteps |-> 0, p_gas |-> Zero,
     S1 |-> Zero, p |-> Zero, r |-> Zero, prop_rates |-> <<>>, malf_rates |-> <<>>]

NoReturn ==
    [avg_emission_rate |-> <<>>, all_avg_emission_rate |-> Zero,
     sum_emission_rate |-> <<>>, cumulative_emission |-> <<>>,
     final_cumulative_emission |-> Zero]

NotCalled ==
    [pc |-> "idle", err |-> NoError, args |-> NoArgs,
     scfh_to_metric_tons_per_day |-> Zero, p |-> Zero, r |-> Zero,
     prop_sample |-> <<>>, malf_sample |-> <<>>, states |-> <<>>, t |-> 0,
     rand_vals |-> <<>>, emission_rates_each |-> <<>>, state_history |-> <<>>,
     state_history_each |-> <<>>, ret |-> NoReturn]

validate_unbounded(a) ==
    IF ~ RLe(Zero, a.S0) THEN InvalidS0
    ELSE IF ~ (0 <= a.DTF) THEN InvalidDTF
    ELSE NoError

\* lines 9-13
validate(a) ==
    IF ~ (RLe(Zero, a.S0) /\ RLe(a.S0, One)) THEN InvalidS0
    ELSE IF ~ (0 < a.DTF) THEN InvalidDTF
    ELSE NoError

Raise(a, e) ==
    [NotCalled EXCEPT !.pc = "raised", !.err = e, !.args = a,
                      !.scfh_to_metric_tons_per_day = RMul(Whole(24), a.p_gas)]

\* lines 5-33: the call up to the first loop iteration, given what the three
\* np.random.choice calls produce (each is reached only if nothing raised
\* before it).
SimEnter(a, ps, ms, st) ==
    IF validate(a) # NoError THEN Raise(a, validate(a))
    ELSE IF ~ ps.ok THEN Raise(a, ps.err)
    ELSE IF ~ ms.ok THEN Raise(a, ms.err)
    ELSE IF ~ st.ok THEN Raise(a, st.err)
    ELSE [pc |-> "loop", err |-> NoError, args |-> a,
          scfh_to_metric_tons_per_day |-> RMul(Whole(24), a.p_gas),
          p |-> np_clip(a.p, Zero, One),
          r |-> np_clip(a.r, Zero, One),
          prop_sample |-> ps.val, malf_sample |-> ms.val, states |-> st.val,
          t |-> 0, rand_vals |-> <<>>,
          emission_rates_each |-> np_full(a.timesteps, np_zeros(a.PC_count)),
          state_history |-> np_full(a.timesteps, <<Zero, Zero>>),
          state_history_each |-> np_full(a.timesteps, np_zeros(a.PC_count)),
          ret |-> NoReturn]

\* lines 35-51: one iteration of the loop, rv being np.random.rand(PC_count)
SimStep(f, rv) ==
    LET n == f.args.PC_count
        row == f.t + 1
    IN  [f EXCEPT
          !.state_history_each[row] = Broadcast(f.states, n),
          !.state_history[row] = Broadcast(state_counts_of(f.states, n), 2),
          !.emission_rates_each[row] =
              Broadcast(emissions_of(f.states, f.prop_sample, f.malf_sample), n),
          !.rand_vals = rv,
          !.states = next_states_of(f.states, rv, f.p, f.r),
          !.t = f.t + 1]

cumulative_not_summed(sum_emission_rate, factor) ==
    [k \in DOMAIN sum_emission_rate |-> RMul(Whole(sum_emission_rate[k]), factor)]

\* cumulative_emission = np.cumsum(sum_emission_rate) * scfh_to_metric_tons_per_day
cumulative_emission_of(sum_emission_rate, factor) ==
    LET c == np_cumsum(sum_emission_rate)
    IN  [k \in DOMAIN c |-> RMul(Whole(c[k]), factor)]

final_first(cumulative_emission) == cumulative_emission[1]

\* final_cumulative_emission = cumulative_emission[-1]
final_of(cumulative_emission) == cumulative_emission[Len(cumulative_emission)]

\* lines 53-62
SimFinish(f) ==
    LET avg == [k \in 1..f.args.timesteps |-> np_mean(f.emission_rates_each[k])]
        sums == [k \in 1..f.args.timesteps |-> np_sum(f.emission_rates_each[k])]
        cum == cumulative_emission_of(sums, f.scfh_to_metric_tons_per_day)
    IN  [f EXCEPT
          !.pc = "returned",
          !.ret = [avg_emission_rate |-> avg,
                   all_avg_emission_rate |-> RMean(avg),
                   sum_emission_rate |-> sums,
                   cumulative_emission |-> cum,
                   final_cumulative_emission |-> final_of(cum)]]

(***************************************************************************)
(* The run the clamping claim compares with: the same call with p and r    *)
(* replaced by the nearest bound of [0, 1].                                *)
(***************************************************************************)
Nearest(x) == IF RLt(One, x) THEN One ELSE IF RLt(x, Zero) THEN Zero ELSE x

TwinArgs(a) == [a EXCEPT !.p = Nearest(a.p), !.r = Nearest(a.r)]

(***************************************************************************)
(* Arguments of a direct call of the simulator.                            *)
(***************************************************************************)
PCCounts == 1..MaxPC

Timesteps == 1..MaxT

DTFVals == {-1, 0, 1}

S0Vals == {Rat(-1, 10), Zero, Rat(1, 2), One, Rat(3, 2)}

S1Vals(S0) == {RSub(One, S0), Rat(1, 4), Rat(-1, 4)}

ProbPairs ==
    {<<Zero, Zero>>, <<Zero, Rat(1, 2)>>, <<Rat(1, 2), Rat(1, 2)>>,
     <<One, Rat(-1, 2)>>, <<Rat(3, 2), Rat(1, 2)>>, <<Rat(-1, 2), Rat(3, 2)>>}

PropPools == {<<>>, <<10>>}

MalfPools == {<<>>, <<100>>}

\* pneumatics.py line 44: p_gas = 0.0000192
p_gas == Rat(192, 10000000)

CallsWith(S0s, pairs, props, malfs) ==
    UNION {{[PC_count |-> n, DTF |-> DTF, S0 |-> S0, timesteps |-> T,
             p_gas |-> p_gas, S1 |-> S1, p |-> pr[1], r |-> pr[2],
             prop_rates |-> prop, malf_rates |-> malf] : S1 \in S1Vals(S0)} :
           n \in PCCounts, T \in Timesteps, DTF \in DTFVals, S0 \in S0s,
           pr \in pairs, prop \in props, malf \in malfs}

\* calls with one rate per pool over every parameter, and calls with several
\* rates per pool (units of different rates) for one parameter choice
DirectArgs ==
    CallsWith(S0Vals, ProbPairs, PropPools, MalfPools)
    \cup CallsWith({One}, {<<Rat(1, 2), Rat(1, 2)>>}, {<<10, 20>>}, {<<100, 400>>})

(***************************************************************************)
(* pneumatics.py: the sidebar inputs and the Monte Carlo loop.             *)
(***************************************************************************)
timesteps == 365

MC_runs == 100

\* (S0_mean, S0_variation) slider positions, in percent
UISliders == {<<82, 10>>, <<100, 0>>}

UIPCCounts == {1, 2}

UIDTFMin == {1, 7}

UIDTFMax == {180}

\* the values np.random.randint and np.random.uniform are sampled at
DTFGrid == {1, 7, 180}

S0Grid == {Rat(3, 4), Rat(9, 10), One}

NoUI ==
    [PC_count |-> 0, S0_min |-> Zero, S0_max |-> Zero, DTF_min |-> 0,
     DTF_max |-> 0, prop_rates |-> <<>>, malf_rates |-> <<>>]

\* lines 47-48
S0_min_of(S0_mean, S0_variation) == RMax(Zero, RSub(S0_mean, S0_variation))

S0_max_of(S0_mean, S0_variation) == RMin(One, RAdd(S0_mean, S0_variation))

\* np.random.randint(DTF_min, DTF_max + 1), then max(1, DTF)
DTFSamples(u) ==
    {IF d < 1 THEN 1 ELSE d : d \in {g \in DTFGrid : u.DTF_min <= g /\ g < u.DTF_max + 1}}

\* np.random.uniform(S0_min, S0_max): in [S0_min, S0_max), S0_min when equal
S0Samples(u) ==
    {s \in S0Grid : RLe(u.S0_min, s) /\ (RLt(s, u.S0_max) \/ s = u.S0_min)}

\* line 106: p = S0 / DTF
p_of(S0, DTF) == RDiv(S0, Whole(DTF))

\* line 107: r = (p / S1) - p
r_of(p, S1) == RSub(RDiv(p, S1), p)

TrialArgs(u, DTF, S0) ==
    LET S1 == RSub(One, S0)
        p == p_of(S0, DTF)
        r == r_of(p, S1)
    IN  [PC_count |-> u.PC_count, DTF |-> DTF, S0 |-> S0,
         timesteps |-> Min(timesteps, MaxT), p_gas |-> p_gas, S1 |-> S1,
         p |-> p, r |-> r, prop_rates |-> u.prop_rates,
         malf_rates |-> u.malf_rates]

Init ==
    /\ app = "idle"
    /\ ui = NoUI
    /\ run = 0
    /\ sim = NotCalled
    /\ twin = NotCalled

\* the simulator is entered with arguments a; the twin run takes the same
\* random choices
Enter(a) ==
    \E ps \in np_random_choice(a.prop_rates, a.PC_count) :
    \E ms \in np_random_choice(a.malf_rates, a.PC_count) :
    \E st \in np_random_choice_p(a.PC_count, a.S0, a.S1) :
        /\ sim' = SimEnter(a, ps, ms, st)
        /\ twin' = SimEnter(TwinArgs(a), ps, ms, st)

\* a direct call of simulate_emissions_optimized
Call ==
    /\ app = "idle"
    /\ app' = "direct"
    /\ \E a \in DirectArgs : Enter(a)
    /\ UNCHANGED <<ui, run>>

\* lines 31-98: the inputs are read, empty rate data stops the script,
\* otherwise the Run Simulation button starts the loop
StartApp ==
    /\ app = "idle"
    /\ \E n \in UIPCCounts, sl \in UISliders, dmin \in UIDTFMin, dmax \in UIDTFMax,
          prop \in PropPools, malf \in MalfPools :
          /\ ui' = [PC_count |-> n,
                    S0_min |-> S0_min_of(Rat(sl[1], 100), Rat(sl[2], 100)),
                    S0_max |-> S0_max_of(Rat(sl[1], 100), Rat(sl[2], 100)),
                    DTF_min |-> dmin, DTF_max |-> dmax,
                    prop_rates |-> prop, malf_rates |-> malf]
          /\ app' = IF Len(prop) = 0 \/ Len(malf) = 0 THEN "stopped" ELSE "driver"
    /\ UNCHANGED <<run, sim, twin>>

\* lines 101-114: one iteration of the Monte Carlo loop up to the call
Trial ==
    /\ app = "driver"
    /\ sim.pc \in {"idle", "returned"}
    /\ run < Min(MC_runs, MaxTrials)
    /\ run' = run + 1
    /\ \E DTF \in DTFSamples(ui), S0 \in S0Samples(ui) :
          IF RSub(One, S0) = Zero
          THEN /\ app' = "crashed"
               /\ UNCHANGED <<sim, twin>>
          ELSE /\ app' = app
               /\ Enter(TrialArgs(ui, DTF, S0))
    /\ UNCHANGED ui

\* lines 35-51
Step ==
    /\ sim.pc = "loop"
    /\ sim.t < sim.args.timesteps
    /\ \E rv \in np_random_rand(sim.args.PC_count) :
          /\ sim' = SimStep(sim, rv)
          /\ twin' = SimStep(twin, rv)
    /\ UNCHANGED <<app, ui, run>>

\* lines 53-62
Finish ==
    /\ sim.pc = "loop"
    /\ sim.t = sim.args.timesteps
    /\ sim' = SimFinish(sim)
    /\ twin' = SimFinish(twin)
    /\ UNCHANGED <<app, ui, run>>

Next == Call \/ StartApp \/ Trial \/ Step \/ Finish

Spec == Init /\ [][Next]_vars

(***************************************************************************)
(* Properties.                                                             *)
(***************************************************************************)
Running == sim.pc \in {"loop", "returned"}

NoTrajectory(f) ==
    /\ f.ret = NoReturn
    /\ f.emission_rates_each = <<>>
    /\ f.state_history = <<>>
    /\ f.state_history_each = <<>>

Units == 1..sim.args.PC_count

\* the rows of the history arrays written so far (row k is step k - 1)
Rows == 1..sim.t

\* the state of unit i one step after the step recorded in row k
StateAfter(k, i) ==
    IF k < sim.t THEN sim.state_history_each[k + 1][i] ELSE sim.states[i]

\* C1: a call with S0 < 0, S0 > 1 or DTF <= 0 raises the simulator's
\* invalid-parameter error and yields no trajectory and no summaries,
\* whatever the other arguments are.
C1_InvalidParameter ==
    (/\ sim.pc # "idle"
     /\ \/ RLt(sim.args.S0, Zero)
        \/ RLt(One, sim.args.S0)
        \/ sim.args.DTF <= 0)
    => /\ sim.pc = "raised"
       /\ sim.err \in {InvalidS0, InvalidDTF}
       /\ NoTrajectory(sim)

C1_Witness ==
    /\ sim.pc = "raised"
    /\ sim.args.DTF = 0
    /\ sim.args.S0 = Rat(1, 2)
    /\ sim.args.prop_rates = <<>>
    /\ sim.err = InvalidDTF

\* C2: a call with valid S0 and DTF and at least one unit, but an empty
\* prop or malf rate pool, raises the empty-pool error, which is not one of
\* the invalid-parameter errors, and yields no trajectory.
C2_EmptyRatePool ==
    (/\ sim.pc # "idle"
     /\ RLe(Zero, sim.args.S0) /\ RLe(sim.args.S0, One)
     /\ sim.args.DTF > 0
     /\ sim.args.PC_count >= 1
     /\ (sim.args.prop_rates = <<>> \/ sim.args.malf_rates = <<>>))
    => /\ sim.pc = "raised"
       /\ sim.err = EmptyPool
       /\ sim.err \notin {InvalidS0, InvalidDTF}
       /\ NoTrajectory(sim)

C2_Witness ==
    /\ sim.pc = "raised"
    /\ sim.err = EmptyPool
    /\ sim.args.prop_rates = <<10>>
    /\ sim.args.malf_rates = <<>>
    /\ sim.args.S1 = RSub(One, sim.args.S0)

\* C3: in every recorded step the two entries of state_history are the
\* number of units in state 0 and in state 1 divided by PC_count, every unit
\* is in state 0 or 1, and the two fractions sum to exactly 1.
C3_FractionsPartition ==
    Running =>
        \A k \in Rows :
            /\ \A i \in Units : sim.state_history_each[k][i] \in {0, 1}
            /\ sim.state_history[k][1] =
                   Rat(Cardinality({i \in Units : sim.state_history_each[k][i] = 0}),
                       sim.args.PC_count)
            /\ sim.state_history[k][2] =
                   Rat(Cardinality({i \in Units : sim.state_history_each[k][i] = 1}),
                       sim.args.PC_count)
            /\ RAdd(sim.state_history[k][1], sim.state_history[k][2]) = One

C3_Witness ==
    /\ sim.pc = "returned"
    /\ sim.args.PC_count = 2
    /\ sim.args.timesteps = 2
    /\ sim.state_history[1] = <<One, Zero>>
    /\ sim.state_history[2] = <<Rat(1, 2), Rat(1, 2)>>

\* C4: a run given p or r outside [0, 1] produces, for the same initial
\* states, rates and uniform draws, the same trajectory and summaries as the
\* run given the nearest bound instead; and whenever p >= 1 every unit that
\* is properly operating at a step is malfunctioning at the next.
C4_Clamping ==
    Running =>
        /\ (sim.args.p # Nearest(sim.args.p) \/ sim.args.r # Nearest(sim.args.r))
           => /\ twin.args = TwinArgs(sim.args)
              /\ twin.pc = sim.pc
              /\ twin.states = sim.states
              /\ twin.state_history = sim.state_history
              /\ twin.state_history_each = sim.state_history_each
              /\ twin.emission_rates_each = sim.emission_rates_each
              /\ twin.ret = sim.ret
        /\ RLe(One, sim.args.p)
           => \A k \in Rows : \A i \in Units :
                 sim.state_history_each[k][i] = 0 => StateAfter(k, i) = 1

C4_Witness ==
    /\ sim.pc = "returned"
    /\ sim.args.p = Rat(3, 2)
    /\ twin.args.p = One
    /\ sim.args.timesteps = 2
    /\ sim.state_history_each[1] = <<0, 1>>
    /\ sim.state_history_each[2] = <<1, 1>>
    /\ sim.rand_vals = <<Rat(1, 2), Rat(1, 2)>>

\* C5: with non-negative rate pools and a positive gas density factor the
\* returned cumulative emission series starts at or above 0 and never
\* decreases.
C5_CumulativeMonotone ==
    (/\ sim.pc = "returned"
     /\ \A v \in Range(sim.args.prop_rates) \cup Range(sim.args.malf_rates) : v >= 0
     /\ RLt(Zero, sim.args.p_gas))
    => /\ RLe(Zero, sim.ret.cumulative_emission[1])
       /\ \A k \in 1..(sim.args.timesteps - 1) :
             RLe(sim.ret.cumulative_emission[k], sim.ret.cumulative_emission[k + 1])

C5_Witness ==
    /\ sim.pc = "returned"
    /\ sim.args.timesteps = 2
    /\ sim.ret.sum_emission_rate = <<100, 10>>
    /\ RLt(sim.ret.cumulative_emission[1], sim.ret.cumulative_emission[2])

\* C6: with p = 0 and r = 0 passed, every unit's recorded state and the
\* state fractions at every step equal those of step 0, whatever the draws.
C6_NoTransitions ==
    (Running /\ sim.args.p = Zero /\ sim.args.r = Zero)
    => \A k \in Rows :
          /\ sim.state_history_each[k] = sim.state_history_each[1]
          /\ sim.state_history[k] = sim.state_history[1]
          /\ sim.states = sim.state_history_each[1]

C6_Witness ==
    /\ sim.pc = "returned"
    /\ sim.args.p = Zero
    /\ sim.args.r = Zero
    /\ sim.args.timesteps = 2
    /\ sim.state_history_each[2] = <<0, 1>>
    /\ sim.rand_vals = <<Zero, Zero>>

\* C7: with S0 = 1 and p = 0 every unit is properly operating at every step,
\* every recorded emission rate is the unit's healthy rate, and the final
\* cumulative emission is the last entry of the cumulative series and equals
\* timesteps x (sum of the healthy rates) x 24 x gas_density_factor.
C7_AllHealthy ==
    (sim.pc = "returned" /\ sim.args.S0 = One /\ sim.args.p = Zero)
    => /\ sim.args.S1 = Zero
       /\ \A k \in Rows : \A i \in Units :
             /\ sim.state_history_each[k][i] = 0
             /\ sim.emission_rates_each[k][i] = sim.prop_sample[i]
       /\ sim.ret.final_cumulative_emission =
             sim.ret.cumulative_emission[sim.args.timesteps]
       /\ sim.ret.final_cumulative_emission =
             RMul(RMul(Whole(sim.args.timesteps * np_sum(sim.prop_sample)), Whole(24)),
                  sim.args.p_gas)

C7_Witness ==
    /\ sim.pc = "returned"
    /\ sim.args.S0 = One
    /\ sim.args.p = Zero
    /\ sim.args.PC_count = 1
    /\ sim.args.timesteps = 2
    /\ sim.args.prop_rates = <<10>>
    /\ sim.args.malf_rates = <<100>>
    /\ sim.emission_rates_each = <<<<10>>, <<10>>>>
    /\ sim.ret.final_cumulative_emission = RMul(Whole(2 * 10 * 24), p_gas)

\* C8: in every Monte Carlo trial with S1 > 0 the probabilities the
\* simulator runs with (the driver's p = S0/DTF and r = p/S1 - p after the
\* clamp) satisfy r x S1 = p x S0, that is r/(p+r) = S0.
C8_SteadyState ==
    (app = "driver" /\ Running /\ RLt(Zero, sim.args.S1))
    => /\ RMul(sim.r, sim.args.S1) = RMul(sim.p, sim.args.S0)
       /\ RAdd(sim.p, sim.r) # Zero
          => RDiv(sim.r, RAdd(sim.p, sim.r)) = sim.args.S0

\* C9: in one step every unit's next state is decided by its own pre-step
\* state and its own draw u in [0, 1): 0 with u < p becomes 1, 1 with u < r
\* becomes 0, anything else is unchanged; the row recorded for the step is
\* the pre-step state.
C9_SimultaneousTransition ==
    [][(sim.pc = "loop" /\ sim'.pc = "loop" /\ sim'.t = sim.t + 1)
       => \A i \in Units :
             LET s == sim.states[i]
                 u == sim'.rand_vals[i]
             IN  /\ RLe(Zero, u) /\ RLt(u, One)
                 /\ sim'.state_history_each[sim.t + 1][i] = s
                 /\ (s = 0 /\ RLt(u, sim.p)) => sim'.states[i] = 1
                 /\ (s = 1 /\ RLt(u, sim.r)) => sim'.states[i] = 0
                 /\ (~ (s = 0 /\ RLt(u, sim.p)) /\ ~ (s = 1 /\ RLt(u, sim.r)))
                    => sim'.states[i] = s]_vars

C9_Witness ==
    /\ sim.pc = "loop"
    /\ sim.t = 1
    /\ sim.p = Rat(1, 2)
    /\ sim.r = Rat(1, 2)
    /\ sim.state_history_each[1] = <<0, 1>>
    /\ sim.rand_vals = <<Zero, Zero>>
    /\ sim.states = <<1, 0>>

\* C10: every unit has one healthy rate from prop_rate_pool and one faulty
\* rate from malf_rate_pool, which no step of the trial changes; each
\* recorded emission is the unit's healthy rate if its recorded state at
\* that step is 0 and its faulty rate if it is 1, hence a member of a pool.
C10_EmissionByState ==
    /\ [](Running =>
            /\ \A i \in Units :
                  /\ sim.prop_sample[i] \in Range(sim.args.prop_rates)
                  /\ sim.malf_sample[i] \in Range(sim.args.malf_rates)
            /\ \A k \in Rows : \A i \in Units :
                  /\ sim.emission_rates_each[k][i] =
                        IF sim.state_history_each[k][i] = 0
                        THEN sim.prop_sample[i]
                        ELSE sim.malf_sample[i]
                  /\ sim.emission_rates_each[k][i] \in
                        Range(sim.args.prop_rates) \cup Range(sim.args.malf_rates))
    /\ [][sim.pc = "loop"
          => /\ sim'.prop_sample = sim.prop_sample
             /\ sim'.malf_sample = sim.malf_sample]_vars

C10_Witness ==
    /\ sim.pc = "returned"
    /\ sim.args.PC_count = 2
    /\ sim.prop_sample = <<10, 20>>
    /\ sim.malf_sample = <<400, 100>>
    /\ sim.state_history_each = <<<<0, 0>>, <<1, 0>>>>
    /\ sim.emission_rates_each = <<<<10, 20>>, <<400, 20>>>>

====
